---- MODULE Spec2Model ----
(***************************************************************************)
(* The Accordion widget of js/accordion.js as a state machine.             *)
(*                                                                         *)
(* One behaviour is the life of one Accordion instance: Init is the state  *)
(* the constructor leaves behind for some list of child elements and some  *)
(* options, and the steps are the calls of togglePanel, the setTimeout     *)
(* callbacks of _collapsePanel / _expandPanel and the continuation of      *)
(* togglePanel after its await.                                            *)
(***************************************************************************)
EXTENDS Integers, Sequences, FiniteSets, TLC

\* Largest number of child elements of the root element that is explored.
MaxChildren == 2

\* this._active = -1: no panel is active.
NONE == -1

\* The JavaScript value undefined, where the model needs it as a number:
\* this._active is never assigned when allowMultiple is set.
Undefined == -2

VARIABLES
    children,         \* root.children as the constructor saw them
    config,           \* this._config
    triggers,         \* this._triggers: the child index of each registered trigger
    ariaExpanded,     \* aria-expanded === 'true' of this._triggers[k]
    ariaDisabled,     \* aria-disabled === 'true' of this._triggers[k]
    panelExpanded,    \* this._panels[k] carries ClassNames.PANEL_EXPANDED
    active,           \* this._active
    isTransitioning,  \* this._isTransitioning: "undefined", "false" or "true"
    timers,           \* the setTimeout callbacks that have not run yet
    pc,               \* where the suspended togglePanel call waits
    request,          \* what the last accepted togglePanel call saw when it started
    events,           \* the notifications dispatched since the last accepted call
    steps,            \* the statements run for the last accepted call, in order
    reentry,          \* how a togglePanel call made by a listener of each
                      \* notification since the last accepted call returns
    lastCall,         \* the last togglePanel call and how it returned
    lastInput         \* the last click or keydown on a trigger and what its
                      \* handler did

vars == <<children, config, triggers, ariaExpanded, ariaDisabled,
          panelExpanded, active, isTransitioning, timers, pc, request, events,
          steps, reentry, lastCall, lastInput>>

\* The state togglePanel may write (everything but the record of the call).
progVars == <<ariaExpanded, panelExpanded, active, isTransitioning, timers, pc,
              request, events, steps, reentry>>

(***************************************************************************)
(* Inputs of the constructor.                                              *)
(***************************************************************************)

\* A child of the root: a group with a trigger and a panel ("pair", with the
\* aria-expanded and aria-disabled attributes of its trigger), or a child the
\* forEach callback returns early on ("skipped": it lacks the group class, or
\* it is a group without a trigger or without a panel).
Child ==
    [kind : {"pair"}, expanded : BOOLEAN, disabled : BOOLEAN]
      \cup [kind : {"skipped"}, expanded : {FALSE}, disabled : {FALSE}]

ChildLists == UNION {[1..m -> Child] : m \in 0..MaxChildren}

\* _getConfig: options and data-* attributes.
getConfig(optToggle, optMultiple, dataToggle, dataMultiple) ==
    LET allowToggle == optToggle \/ dataToggle
        allowMultiple == allowToggle /\ (optMultiple \/ dataMultiple)
    IN  [allowToggle |-> allowToggle, allowMultiple |-> allowMultiple]

\* The forEach of the constructor over the first k children: the triggers
\* pushed (by child index), whether each panel got the expanded class, and
\* this._active.
RECURSIVE scanChildren(_, _, _)
scanChildren(ch, cfg, k) ==
    IF k = 0
    THEN [triggers |-> <<>>, panels |-> <<>>,
          active |-> IF cfg.allowMultiple THEN Undefined ELSE NONE]
    ELSE LET s == scanChildren(ch, cfg, k - 1)
             c == ch[k]
             i == k - 1
             flagged == c.expanded
             single == ~cfg.allowMultiple /\ flagged
             isExpanded == IF single /\ s.active # NONE THEN FALSE ELSE flagged
         IN  IF c.kind # "pair"
             THEN s
             ELSE [triggers |-> Append(s.triggers, i),
                   panels |-> Append(s.panels, isExpanded),
                   active |-> IF single /\ s.active = NONE THEN i ELSE s.active]

\* The number of registered groups: this._triggers.length = this._panels.length.
groupCount == Len(triggers)

Indices == 0 .. (groupCount - 1)

\* The indices togglePanel is called with: every index in range, and one
\* below and one above the range.
CallIndices == (-1) .. groupCount

\* The negation of allowToggle dropped.
mustOpenFirstNoNegation(cfg, n, act) == n > 0 /\ cfg.allowToggle /\ act = NONE

\* The constructor did not return on an empty group, and
\* if (!this._config.allowToggle && this._active === -1)
mustOpenFirst(cfg, n, act) == n > 0 /\ ~cfg.allowToggle /\ act = NONE

\* The state after new Accordion(root, options).
Init ==
    \E ch \in ChildLists, optToggle, optMultiple, dataToggle, dataMultiple \in BOOLEAN :
        LET cfg == getConfig(optToggle, optMultiple, dataToggle, dataMultiple)
            s == scanChildren(ch, cfg, Len(ch))
            n == Len(s.triggers)
            force == mustOpenFirst(cfg, n, s.active)
        IN  /\ children = ch
            /\ config = cfg
            /\ triggers = s.triggers
            /\ ariaExpanded = [k \in 0..(n - 1) |->
                                 IF force /\ k = 0 THEN TRUE
                                 ELSE ch[s.triggers[k + 1] + 1].expanded]
            /\ ariaDisabled = [k \in 0..(n - 1) |-> ch[s.triggers[k + 1] + 1].disabled]
            /\ panelExpanded = [k \in 0..(n - 1) |->
                                  IF force /\ k = 0 THEN TRUE ELSE s.panels[k + 1]]
            /\ active = IF force THEN 0 ELSE s.active
            /\ isTransitioning = IF n = 0 THEN "undefined" ELSE "false"
            /\ timers = {}
            /\ pc = "idle"
            /\ request = [index |-> NONE, active |-> NONE, wasExpanded |-> FALSE,
                          activeExpanded |-> FALSE]
            /\ events = <<>>
            /\ steps = <<>>
            /\ reentry = <<>>
            /\ lastCall = [index |-> NONE, outcome |-> "none"]
            /\ lastInput = [event |-> "none", target |-> NONE, keyCode |-> NONE,
                            effect |-> "none", index |-> NONE]

(***************************************************************************)
(* _collapsePanel and _expandPanel.                                        *)
(***************************************************************************)

\* dispatchEvent(el, event, detail) appended to the log of notifications.
\* window.CustomEvent is a function in every engine that runs the async
\* togglePanel of this file, so the guard of dispatchEvent is taken.
dispatchEvent(log, event, i) == Append(log, [type |-> event, index |-> i])

\* togglePanel(j) called by a listener while this._isTransitioning is lock:
\* the two early returns the call can take before it reads anything else
\* ("entered": it took neither).
togglePanelInListener(lock, j) ==
    IF j < 0 \/ j >= groupCount THEN "ignored"
    ELSE IF lock = "true" THEN "ignored"
    ELSE "entered"

\* The listeners of the notification event run inside dispatchEvent: what a
\* togglePanel call of theirs does, for every index they may pass.
listener(log, event, lock) ==
    Append(log, [event |-> event,
                 outcomes |-> {togglePanelInListener(lock, j) : j \in CallIndices}])

\* The forced reflow moved behind the write of the target height.
collapseStepsLateReflow ==
    <<"collapse:flag", "collapse:measure", "collapse:height=current",
      "collapse:duration", "collapse:height=0", "collapse:reflow",
      "collapse:notify-before", "collapse:setTimeout">>

\* The statements of the executor of _collapsePanel, lines 185 to 197:
\* setAttribute, getBoundingClientRect, style.height = currentHeight + 'px',
\* forceReflow, getTransitionDuration, style.height = '0', dispatchEvent,
\* setTimeout.
collapseSteps ==
    <<"collapse:flag", "collapse:measure", "collapse:height=current",
      "collapse:reflow", "collapse:duration", "collapse:height=0",
      "collapse:notify-before", "collapse:setTimeout">>

\* The statements of the executor of _expandPanel, lines 218 to 231:
\* setAttribute, classList.add, getBoundingClientRect, style.height = '0',
\* forceReflow, getTransitionDuration, style.height = targetHeight + 'px',
\* dispatchEvent, setTimeout.
expandSteps ==
    <<"expand:flag", "expand:class", "expand:measure", "expand:height=0",
      "expand:reflow", "expand:duration", "expand:height=natural",
      "expand:notify-before", "expand:setTimeout">>

\* The notification dispatched before the height override is cleared.
collapseDoneStepsNotifyFirst ==
    <<"collapse:notify-done", "collapse:height=clear", "collapse:class",
      "collapse:resolve">>

\* The statements of the setTimeout callback of _collapsePanel, lines 198
\* to 203: style.height = '', classList.remove, dispatchEvent, resolve.
collapseDoneSteps ==
    <<"collapse:height=clear", "collapse:class", "collapse:notify-done",
      "collapse:resolve">>

\* The statements of the setTimeout callback of _expandPanel, lines 232 to
\* 236: style.height = '', dispatchEvent, resolve.
expandDoneSteps == <<"expand:height=clear", "expand:notify-done", "expand:resolve">>

\* style.transitionDuration and style.transitionDelay as getComputedStyle
\* returns them: nothing, no time, or a time.
Durations == {"", "0s", "0.3s"}

Delays == {"", "0s"}

\* parseFloat of a style value is NaN.
isNaN(str) == str \notin {"0s", "0.3s"}

\* parseFloat of a style value, times 1000.
parseFloat(str) == IF str = "0.3s" THEN 300 ELSE 0

\* getTransitionDuration(el) for an element with the given computed style,
\* in milliseconds.
getTransitionDuration(duration, delay) ==
    IF duration = "" /\ delay = "" THEN 0
    ELSE IF isNaN(duration) \/ isNaN(delay) THEN 0
    ELSE parseFloat(duration) + parseFloat(delay)

\* The waits getTransitionDuration can return.
Waits == {getTransitionDuration(d, l) : d \in Durations, l \in Delays}

\* What the setTimeout callback of op for panel i writes.
callback(st, op, i) ==
    IF op = "collapse"
    THEN [st EXCEPT !.cls[i] = FALSE,
                    !.log = dispatchEvent(@, "collapse", i),
                    !.reentry = listener(@, "collapse", st.lock),
                    !.steps = @ \o collapseDoneSteps]
    ELSE [st EXCEPT !.log = dispatchEvent(@, "expand", i),
                    !.reentry = listener(@, "expand", st.lock),
                    !.steps = @ \o expandDoneSteps]

\* A wait of 0 running the callback inside the call.
setTimeoutInlineZero(st, op, i, ms) ==
    IF ms = 0 THEN callback(st, op, i)
    ELSE [st EXCEPT !.timers = @ \cup {[op |-> op, index |-> i, ms |-> ms]}]

\* setTimeout(callback, ms): the callback is queued, whatever ms is.
setTimeout(st, op, i, ms) ==
    [st EXCEPT !.timers = @ \cup {[op |-> op, index |-> i, ms |-> ms]}]

\* The timer t may be the next to run: timers run by their due time, and
\* the timer of _collapsePanel is set before the timer of _expandPanel, so
\* the latter runs first only when its wait is shorter.
due(t) ==
    t.op = "collapse" \/ \A u \in timers : u.op = "collapse" => t.ms < u.ms

\* The part of _collapsePanel(i) that runs inside the call, on a record st of
\* the DOM state; this._triggers[i] undefined makes the executor throw, and
\* the promise returned is rejected.
collapsePanel(st, i, ms) ==
    IF i \notin DOMAIN st.aria
    THEN [st EXCEPT !.rejected = TRUE]
    ELSE setTimeout([st EXCEPT !.aria[i] = FALSE,
                               !.log = dispatchEvent(@, "before-collapse", i),
                               !.reentry = listener(@, "before-collapse", st.lock),
                               !.steps = @ \o collapseSteps],
                    "collapse", i, ms)

\* The part of _expandPanel(i) that runs inside the call.
expandPanel(st, i, ms) ==
    IF i \notin DOMAIN st.aria
    THEN [st EXCEPT !.rejected = TRUE]
    ELSE setTimeout([st EXCEPT !.aria[i] = TRUE,
                               !.cls[i] = TRUE,
                               !.log = dispatchEvent(@, "before-expand", i),
                               !.reentry = listener(@, "before-expand", st.lock),
                               !.steps = @ \o expandSteps],
                    "expand", i, ms)

\* The callback removing the expanded class from every panel, not only panel i.
collapseTimeoutAll(i) ==
    /\ \E t \in timers :
          /\ t.op = "collapse" /\ t.index = i /\ due(t)
          /\ timers' = timers \ {t}
    /\ panelExpanded' = [k \in DOMAIN panelExpanded |-> FALSE]
    /\ events' = dispatchEvent(events, "collapse", i)
    /\ reentry' = listener(reentry, "collapse", isTransitioning)
    /\ steps' = steps \o collapseDoneSteps
    /\ UNCHANGED <<children, config, triggers, ariaExpanded,
                   ariaDisabled, active, isTransitioning, pc, request, lastCall,
                   lastInput>>

\* The setTimeout callback of _collapsePanel(i).
collapseTimeout(i) ==
    /\ \E t \in timers :
          /\ t.op = "collapse" /\ t.index = i /\ due(t)
          /\ timers' = timers \ {t}
    /\ panelExpanded' = [panelExpanded EXCEPT ![i] = FALSE]
    /\ events' = dispatchEvent(events, "collapse", i)
    /\ reentry' = listener(reentry, "collapse", isTransitioning)
    /\ steps' = steps \o collapseDoneSteps
    /\ UNCHANGED <<children, config, triggers, ariaExpanded,
                   ariaDisabled, active, isTransitioning, pc, request, lastCall,
                   lastInput>>

\* The setTimeout callback of _expandPanel(i).
expandTimeout(i) ==
    /\ \E t \in timers :
          /\ t.op = "expand" /\ t.index = i /\ due(t)
          /\ timers' = timers \ {t}
    /\ events' = dispatchEvent(events, "expand", i)
    /\ reentry' = listener(reentry, "expand", isTransitioning)
    /\ steps' = steps \o expandDoneSteps
    /\ UNCHANGED <<children, config, triggers, ariaExpanded,
                   ariaDisabled, panelExpanded, active, isTransitioning, pc,
                   request, lastCall, lastInput>>

(***************************************************************************)
(* togglePanel.                                                            *)
(***************************************************************************)

\* The upper limit compared with > instead of >=.
outOfRangeOffByOne(i) == i < 0 \/ i > groupCount

\* if (i < 0 || i >= this._panels.length)
outOfRange(i) == i < 0 \/ i >= groupCount

\* The check of the lock left out.
busyUnchecked == FALSE

\* if (this._isTransitioning)
busy == isTransitioning = "true"

\* The negation of allowToggle dropped.
alwaysOpenLockNoNegation(i) == config.allowToggle /\ active = i

\* if (!this._config.allowToggle && this._active === i)
alwaysOpenLock(i) == ~config.allowToggle /\ active = i

\* The test of isExpanded negated.
disabledLockNegated(i) == ~ariaExpanded[i] /\ ariaDisabled[i]

\* if (isExpanded && isDisabled)
disabledLock(i) == ariaExpanded[i] /\ ariaDisabled[i]

\* A call that returns at one of the early returns.
ignored(i) ==
    /\ lastCall' = [index |-> i, outcome |-> "ignored"]
    /\ UNCHANGED <<children, config, triggers, ariaExpanded,
                   ariaDisabled, panelExpanded, active, isTransitioning, timers,
                   pc, request, events, steps, reentry>>

\* A call that ends in a TypeError before it changed anything:
\* this._triggers[i] is undefined and trigger.getAttribute throws.
threw(i) ==
    /\ lastCall' = [index |-> i, outcome |-> "threw"]
    /\ UNCHANGED <<children, config, triggers, ariaExpanded,
                   ariaDisabled, panelExpanded, active, isTransitioning, timers,
                   pc, request, events, steps, reentry>>

\* this._isTransitioning = true is assigned behind the branches: the
\* notifications of the call are dispatched under the value it had before.
lockedAfterDispatch == isTransitioning

\* this._isTransitioning while the branches of togglePanel run: line 332
\* assigns true before them.
lockedBeforeDispatch == "true"

\* A call that passed the early returns: the code up to the await.  The
\* waits are those of the panels the call animates (0 stands for a wait the
\* call never reads).
accepted(i) ==
  \E msCollapse \in IF config.allowToggle /\ ~ariaExpanded[i] THEN {0}
                    ELSE IF ~config.allowToggle /\ active \notin Indices THEN {0}
                    ELSE Waits,
     msExpand \in IF config.allowToggle /\ ariaExpanded[i] THEN {0} ELSE Waits :
    LET st0 == [aria |-> ariaExpanded, cls |-> panelExpanded, log |-> <<>>,
                steps |-> <<"toggle:lock">>,
                lock |-> lockedBeforeDispatch, reentry |-> <<>>,
                timers |-> timers, rejected |-> FALSE]
        isExpanded == ariaExpanded[i]
        st == IF config.allowToggle
              THEN IF isExpanded THEN collapsePanel(st0, i, msCollapse)
                   ELSE expandPanel(st0, i, msExpand)
              ELSE expandPanel(collapsePanel(st0, active, msCollapse), i, msExpand)
    IN  /\ isTransitioning' = "true"
        /\ ariaExpanded' = st.aria
        /\ panelExpanded' = st.cls
        /\ events' = st.log
        /\ steps' = st.steps
        /\ reentry' = st.reentry
        /\ timers' = st.timers
        /\ pc' = IF st.rejected THEN "rejected"
                 ELSE IF ~config.allowToggle THEN "awaitAll"
                 ELSE IF isExpanded THEN "awaitCollapse" ELSE "awaitExpand"
        /\ request' = [index |-> i, active |-> active, wasExpanded |-> isExpanded,
                       activeExpanded |-> active \in DOMAIN ariaExpanded
                                            /\ ariaExpanded[active]
                                            /\ panelExpanded[active]]
        /\ lastCall' = [index |-> i, outcome |-> "accepted"]
        /\ UNCHANGED <<children, config, triggers, ariaDisabled, active>>

\* A call of togglePanel(i), up to its first await or its return.
togglePanel(i) ==
    IF outOfRange(i) THEN ignored(i)
    ELSE IF busy THEN ignored(i)
    ELSE IF alwaysOpenLock(i) THEN ignored(i)
    ELSE IF i \notin DOMAIN ariaExpanded THEN threw(i)
    ELSE IF disabledLock(i) THEN ignored(i)
    ELSE accepted(i)

\* Promise.race in place of Promise.all: the first timer to run fulfils it.
settledRace == Cardinality(timers) <= (IF pc = "awaitAll" THEN 1 ELSE 0)

\* The promise togglePanel awaits is fulfilled: every timer it waits for has run.
settled == timers = {}

\* togglePanel after its await: this._active is updated and the lock released.
resume ==
    /\ pc \in {"awaitCollapse", "awaitExpand", "awaitAll"}
    /\ settled
    /\ active' = IF pc = "awaitAll" THEN request.index
                 ELSE IF config.allowMultiple THEN active
                 ELSE IF pc = "awaitCollapse" THEN NONE ELSE request.index
    /\ isTransitioning' = "false"
    /\ pc' = "idle"
    /\ steps' = steps \o <<"toggle:unlock">>
    /\ UNCHANGED <<children, config, triggers, ariaExpanded,
                   ariaDisabled, panelExpanded, timers, request, events,
                   reentry, lastCall, lastInput>>

\* togglePanel called by the script of the page.
Next ==
    \/ \E i \in CallIndices : togglePanel(i) /\ UNCHANGED lastInput
    \/ \E i \in Indices : collapseTimeout(i)
    \/ \E i \in Indices : expandTimeout(i)
    \/ resume

Spec == Init /\ [][Next]_vars

(***************************************************************************)
(* The event handlers of the triggers.                                     *)
(***************************************************************************)

Keys == [ENTER |-> 13, SPACE |-> 32, END |-> 35, HOME |-> 36, UP |-> 38, DOWN |-> 40]

\* The key codes explored: the six of Keys and one other key (Tab).
KeyCodes == {13, 32, 35, 36, 38, 40, 9}

\* An identifier that is declared nowhere: reading it throws a ReferenceError.
Undeclared == -3

\* What the free identifiers i and toggleCount of _handleTriggerKeyDown can
\* be bound to: nothing in the file declares them, so they are properties of
\* the global object if the page defined them, and undeclared otherwise.
Globals == {Undeclared} \cup Indices

\* The bindings of a free identifier that matter to a run of the handler:
\* all of them if the run reads the identifier, one if it does not.
Reads(read) == IF read THEN Globals ELSE {Undeclared}

\* this._triggers.indexOf(e.currentTarget) for the trigger of group k.
indexOf(k) == k

\* The handler ended in an exception before it called anything.
handlerThrew(event, k, keyCode) ==
    /\ lastInput' = [event |-> event, target |-> k, keyCode |-> keyCode,
                     effect |-> "throw", index |-> NONE]
    /\ UNCHANGED <<children, config, triggers, ariaExpanded, ariaDisabled,
                   panelExpanded, active, isTransitioning, timers, pc, request,
                   events, steps, reentry, lastCall>>

\* this._triggers[nextIndex].focus(), for nextIndex undefined (no focus
\* move), out of range (a TypeError) or the index of a trigger.
focus(k, keyCode, nextIndex) ==
    /\ lastInput' = [event |-> "keydown", target |-> k, keyCode |-> keyCode,
                     effect |-> IF nextIndex = Undefined THEN "none"
                                ELSE IF nextIndex \in Indices THEN "focus"
                                ELSE "throw",
                     index |-> IF nextIndex \in Indices THEN nextIndex ELSE NONE]
    /\ UNCHANGED <<children, config, triggers, ariaExpanded, ariaDisabled,
                   panelExpanded, active, isTransitioning, timers, pc, request,
                   events, steps, reentry, lastCall>>

\* _handleTriggerClick(e) for a click on the trigger of group k.
handleTriggerClick(k) ==
    LET groupIndex == indexOf(k)
    IN  /\ togglePanel(groupIndex)
        /\ lastInput' = [event |-> "click", target |-> k, keyCode |-> NONE,
                         effect |-> "toggle", index |-> groupIndex]

\* _handleTriggerKeyDown(e) for a keydown with e.keyCode = keyCode on the
\* trigger of group k, in a page where the identifiers i and toggleCount
\* are bound as given.
handleTriggerKeyDown(k, keyCode, i, toggleCount) ==
    IF keyCode = Keys.ENTER \/ keyCode = Keys.SPACE
    THEN IF i = Undeclared
         THEN handlerThrew("keydown", k, keyCode)
         ELSE /\ togglePanel(i)
              /\ lastInput' = [event |-> "keydown", target |-> k,
                               keyCode |-> keyCode, effect |-> "toggle",
                               index |-> i]
    ELSE LET currentIndex == indexOf(k)
         IN  IF keyCode = Keys.END
             THEN IF toggleCount = Undeclared
                  THEN handlerThrew("keydown", k, keyCode)
                  ELSE focus(k, keyCode, toggleCount - 1)
             ELSE IF keyCode = Keys.HOME
             THEN focus(k, keyCode, 0)
             ELSE IF keyCode = Keys.DOWN
             THEN focus(k, keyCode, (groupCount + currentIndex + 1) % groupCount)
             ELSE IF keyCode = Keys.UP
             THEN focus(k, keyCode, (groupCount + currentIndex - 1) % groupCount)
             ELSE focus(k, keyCode, Undefined)

\* The accordion driven by clicks and key presses on its triggers.
KeyNext ==
    \/ \E k \in Indices : handleTriggerClick(k)
    \/ \E k \in Indices, keyCode \in KeyCodes :
          \E i \in Reads(keyCode \in {Keys.ENTER, Keys.SPACE}),
             toggleCount \in Reads(keyCode = Keys.END) :
              handleTriggerKeyDown(k, keyCode, i, toggleCount)
    \/ \E i \in Indices : collapseTimeout(i)
    \/ \E i \in Indices : expandTimeout(i)
    \/ resume

KeySpec == Init /\ [][KeyNext]_vars

(***************************************************************************)
(* Vocabulary of the properties.                                           *)
(***************************************************************************)

\* The panels whose trigger says expanded: the flag togglePanel reads.
AriaSet == {k \in Indices : ariaExpanded[k]}

\* The panels that are visually expanded.
ClassSet == {k \in Indices : panelExpanded[k]}

\* Panel k is expanded, for the flag and for the eye.
Expanded(k) == k \in AriaSet /\ k \in ClassSet

\* Panel k is collapsed, for the flag and for the eye.
Collapsed(k) == k \notin AriaSet /\ k \notin ClassSet

\* The notification of type t for index k is in the log.
Emitted(t, k) == \E n \in DOMAIN events : events[n] = [type |-> t, index |-> k]

\* The position of the first notification of type t for index k in the log.
FirstAt(t, k) ==
    CHOOSE n \in DOMAIN events :
        /\ events[n] = [type |-> t, index |-> k]
        /\ \A m \in 1..(n - 1) : events[m] # events[n]

SingleToggle == config.allowToggle /\ ~config.allowMultiple

ExclusiveSwap == ~config.allowToggle

\* A request was accepted and has run to its end.
Completed == request.index # NONE /\ pc = "idle"

(***************************************************************************)
(* C1                                                                      *)
(***************************************************************************)

\* C1: with allowToggle false and a non-empty group, whenever no transition
\* is in flight exactly one panel is expanded (its trigger says so and its
\* panel shows it).
C1_ExactlyOneExpanded ==
    (ExclusiveSwap /\ groupCount > 0 /\ isTransitioning = "false")
        => \E k \in Indices : AriaSet = {k} /\ ClassSet = {k}

(***************************************************************************)
(* C2                                                                      *)
(***************************************************************************)

\* C2: with allowMultiple false, whenever no transition is in flight at most
\* one panel is expanded, it is the panel this._active names, and no panel
\* is expanded exactly when this._active is NONE.
C2_AtMostOneAndActive ==
    (~config.allowMultiple /\ isTransitioning # "true")
        => /\ AriaSet \cup ClassSet \subseteq {active}
           /\ (active = NONE) <=> (AriaSet \cup ClassSet = {})

(***************************************************************************)
(* C3                                                                      *)
(***************************************************************************)

\* C3: with allowToggle true and allowMultiple false, a completed request
\* on a collapsed panel i, accepted while another panel a was the active,
\* expanded panel, has emitted before-collapse{a}, collapse{a},
\* before-expand{i} and expand{i}, and leaves a collapsed, i expanded and
\* this._active = i.
C3_ExpandCollapsesActive ==
    (/\ SingleToggle
     /\ Completed
     /\ ~request.wasExpanded
     /\ request.activeExpanded
     /\ request.active # request.index)
        => /\ Emitted("before-collapse", request.active)
           /\ Emitted("collapse", request.active)
           /\ Emitted("before-expand", request.index)
           /\ Emitted("expand", request.index)
           /\ Collapsed(request.active)
           /\ Expanded(request.index)
           /\ active = request.index

(***************************************************************************)
(* C4                                                                      *)
(***************************************************************************)

\* A step is a call of togglePanel that the record of calls shows.
CallStep == lastCall' # lastCall

\* The call of this step returned at an early return and wrote nothing.
SilentNoOp == lastCall'.outcome = "ignored" /\ UNCHANGED progVars

\* C4: while an accepted request is in flight every other call of
\* togglePanel is dropped: it returns silently and writes nothing, no new
\* request is recorded and no new animation starts, the triggers' flags stay
\* as the request in flight set them, and this._active only ever takes the
\* value the request in flight gives it.
C4_SecondRequestDropped ==
    [][isTransitioning = "true" =>
         /\ CallStep => SilentNoOp
         /\ request' = request
         /\ timers' \subseteq timers
         /\ ariaExpanded' = ariaExpanded
         /\ active' # active => active' \in {NONE, request.index}]_vars

\* A call for another panel in range was dropped while a timer was pending.
C4_Witness ==
    /\ isTransitioning = "true"
    /\ timers # {}
    /\ lastCall.outcome = "ignored"
    /\ lastCall.index \in Indices
    /\ lastCall.index # request.index
    /\ lastCall.index # active
    /\ ~ariaDisabled[lastCall.index]

(***************************************************************************)
(* C5                                                                      *)
(***************************************************************************)

\* C5: the lock is taken by the step that accepts a request, it is held as
\* long as a timer of the request is pending, it is released only when none
\* is pending, and this._active changes only in the step that releases it.
C5_LockHeldUntilDone ==
    [][/\ (CallStep /\ lastCall'.outcome = "accepted") => isTransitioning' = "true"
       /\ timers' # {} => isTransitioning' = "true"
       /\ (isTransitioning = "true" /\ isTransitioning' # "true")
             => timers = {} /\ isTransitioning' = "false"
       /\ active' # active
             => timers = {} /\ isTransitioning = "true" /\ isTransitioning' = "false"]_vars

\* In a swap one of the two animations has completed, the other has not,
\* and the lock is held with this._active still the old panel.
C5_Witness ==
    /\ pc = "awaitAll"
    /\ Cardinality(timers) = 1
    /\ isTransitioning = "true"
    /\ active = request.active

(***************************************************************************)
(* C6                                                                      *)
(***************************************************************************)

\* C6: a panel that is expanded and whose trigger is disabled stays expanded
\* in every step, and no before-collapse or collapse notification for its
\* index is emitted.
C6_DisabledNeverCollapsed ==
    [][\A k \in Indices :
          (ariaDisabled[k] /\ Expanded(k))
            => /\ ariaExpanded'[k] /\ panelExpanded'[k]
               /\ \A n \in DOMAIN events' :
                     events'[n] \notin {[type |-> "before-collapse", index |-> k],
                                       [type |-> "collapse", index |-> k]}]_vars

(***************************************************************************)
(* C7                                                                      *)
(***************************************************************************)

\* C7: a call of togglePanel(i) for a panel i that is expanded (by its
\* trigger's flag or visibly) and disabled returns silently and writes
\* nothing, in every configuration.
C7_DisabledToggleNoOp ==
    [][\A i \in Indices :
          (/\ CallStep
           /\ lastCall'.index = i
           /\ ariaExpanded[i] \/ panelExpanded[i]
           /\ ariaDisabled[i])
            => SilentNoOp]_vars

\* Before any request was accepted, in a configuration where collapsing is
\* allowed, a call for an expanded, disabled panel was dropped.
C7_Witness ==
    /\ config.allowToggle
    /\ request.index = NONE
    /\ lastCall.outcome = "ignored"
    /\ lastCall.index \in Indices
    /\ Expanded(lastCall.index)
    /\ ariaDisabled[lastCall.index]

(***************************************************************************)
(* C8                                                                      *)
(***************************************************************************)

\* The notifications of a swap are in the log in an order the claim allows:
\* both before-notifications precede every completion notification.
C8_BeforeFirst ==
    /\ Emitted("before-collapse", request.active)
    /\ Emitted("before-expand", request.index)
    /\ \A n \in DOMAIN events :
          events[n].type \in {"collapse", "expand"}
            => /\ FirstAt("before-collapse", request.active) < n
               /\ FirstAt("before-expand", request.index) < n

C9_ActiveToggleNoOp ==
    [][(CallStep /\ ExclusiveSwap /\ lastCall'.index = active) => SilentNoOp]_vars

\* With allowToggle false and no transition in flight, a call for the
\* active panel, which is not disabled, was dropped.
C9_Witness ==
    /\ ExclusiveSwap
    /\ isTransitioning = "false"
    /\ request.index # NONE
    /\ pc = "idle"
    /\ lastCall.outcome = "ignored"
    /\ lastCall.index = active
    /\ active \in Indices
    /\ ~ariaDisabled[active]

(***************************************************************************)
(* C10                                                                     *)
(***************************************************************************)

\* C10: a call of togglePanel(i) with i outside [0, groupCount) returns
\* silently (it does not throw) and writes nothing, whatever the
\* configuration and the state, the empty group included.
C10_OutOfRangeNoOp ==
    [][(CallStep /\ (lastCall'.index < 0 \/ lastCall'.index >= groupCount))
         => SilentNoOp]_vars

\* With no transition in flight, a call with the first index past the end
\* of a non-empty group, which is not this._active, was dropped.
C10_Witness ==
    /\ groupCount > 0
    /\ isTransitioning = "false"
    /\ lastCall.outcome = "ignored"
    /\ lastCall.index = groupCount
    /\ active # groupCount

(***************************************************************************)
(* C11                                                                     *)
(***************************************************************************)

MultiOpen == config.allowToggle /\ config.allowMultiple

\* C11: with allowToggle and allowMultiple true, every step leaves the
\* trigger flag and the visual state of every panel other than the one the
\* request in flight names as they were, every notification in the log
\* carries that panel's index, and a request that expands emits no
\* before-collapse or collapse notification and takes no panel out of the
\* expanded ones.
C11_MultiOpenFrame ==
    [][MultiOpen =>
         /\ \A k \in Indices :
               k # request'.index
                 => /\ ariaExpanded'[k] = ariaExpanded[k]
                    /\ panelExpanded'[k] = panelExpanded[k]
         /\ \A n \in DOMAIN events' : events'[n].index = request'.index
         /\ ~request'.wasExpanded
               => /\ \A n \in DOMAIN events' :
                        events'[n].type \in {"before-expand", "expand"}
                  /\ AriaSet \subseteq {k \in Indices : ariaExpanded'[k]}
                  /\ ClassSet \subseteq {k \in Indices : panelExpanded'[k]}]_vars

\* Every pair started collapsed, at least two panels were expanded one
\* after another, and now all of them are expanded with the last request
\* completed.
C11_Witness ==
    /\ MultiOpen
    /\ groupCount >= 2
    /\ \A c \in DOMAIN children : ~children[c].expanded
    /\ Completed
    /\ ~request.wasExpanded
    /\ \A k \in Indices : Expanded(k)
    /\ Emitted("expand", request.index)

(***************************************************************************)
(* C12                                                                     *)
(***************************************************************************)

\* The pair at position k carried aria-expanded="true" in the markup.
flaggedAt(k) == children[triggers[k + 1] + 1].expanded

FlaggedSet == {k \in Indices : flaggedAt(k)}

\* The position of the first pair flagged expanded.
FirstFlagged == CHOOSE k \in FlaggedSet : \A j \in FlaggedSet : k <= j

\* No request has been accepted yet: the program state is the one the
\* constructor left.
JustConstructed == request.index = NONE

\* C12: after construction with allowMultiple false, the first pair flagged
\* expanded is the active panel, and every later pair that was flagged
\* expanded is collapsed, by its panel's class and by its trigger's flag.
C12_LaterFlaggedCollapsed ==
    (~config.allowMultiple /\ JustConstructed /\ FlaggedSet # {})
        => /\ active = FirstFlagged
           /\ \A k \in FlaggedSet \ {FirstFlagged} : Collapsed(k)

(***************************************************************************)
(* C13                                                                     *)
(***************************************************************************)

\* C13: after construction with allowMultiple false, this._active is NONE
\* or the position, among the registered pairs, of the first pair flagged
\* expanded (of panel 0 when none was flagged and the constructor opened
\* it), whatever children were skipped.
C13_ActiveIsGroupPosition ==
    (~config.allowMultiple /\ JustConstructed)
        => \/ active = NONE
           \/ /\ active \in Indices
              /\ IF FlaggedSet # {} THEN active = FirstFlagged
                 ELSE ~config.allowToggle /\ active = 0

(***************************************************************************)
(* C14                                                                     *)
(***************************************************************************)

\* C14: after construction with allowToggle false, a non-empty group and no
\* pair flagged expanded, panel 0 and no other is expanded,
\* this._active = 0, no transition is in flight, no timer is pending and no
\* notification was emitted.
C14_FirstPanelForcedOpen ==
    (ExclusiveSwap /\ JustConstructed /\ groupCount > 0 /\ FlaggedSet = {})
        => /\ AriaSet = {0}
           /\ ClassSet = {0}
           /\ active = 0
           /\ isTransitioning = "false"
           /\ timers = {}
           /\ pc = "idle"
           /\ events = <<>>

\* The state the constructor left for two pairs, none flagged expanded:
\* panel 0 is expanded and panel 1 is not.
C14_Witness ==
    /\ ExclusiveSwap
    /\ lastCall.outcome = "none"
    /\ Len(children) = 2
    /\ groupCount = 2
    /\ FlaggedSet = {}
    /\ Expanded(0)
    /\ Collapsed(1)
    /\ active = 0

(***************************************************************************)
(* C15, C16: the order of the statements of one operation.                 *)
(***************************************************************************)

\* Where in the statements of the last accepted call the statement s is.
Positions(s) == {p \in DOMAIN steps : steps[p] = s}

\* The statement s has run for the last accepted call.
Has(s) == Positions(s) # {}

\* How often the statement s has run for the last accepted call.
Count(s) == Cardinality(Positions(s))

\* Both statements have run, every a before every b.
Before(a, b) ==
    /\ Has(a)
    /\ Has(b)
    /\ \A p \in Positions(a), q \in Positions(b) : p < q

\* The statement b ran right after the statement a.
RightBefore(a, b) ==
    /\ Has(b)
    /\ \A p \in Positions(a) : p + 1 \in Positions(b)

\* The names of the statements the claims speak of, per operation.
StepNames ==
    [collapse |-> [start |-> "collapse:height=current",
                   flush |-> "collapse:reflow",
                   target |-> "collapse:height=0",
                   before |-> "collapse:notify-before",
                   wait |-> "collapse:setTimeout",
                   clear |-> "collapse:height=clear",
                   done |-> "collapse:notify-done",
                   resolve |-> "collapse:resolve"],
     expand |-> [start |-> "expand:height=0",
                 flush |-> "expand:reflow",
                 target |-> "expand:height=natural",
                 before |-> "expand:notify-before",
                 wait |-> "expand:setTimeout",
                 clear |-> "expand:height=clear",
                 done |-> "expand:notify-done",
                 resolve |-> "expand:resolve"]]

Ops == {"collapse", "expand"}

\* The completion half of C15: the completion notification comes after the
\* timer was set and the height override was cleared, and the promise is
\* resolved right after it.
DoneOrder(n) ==
    Has(n.done) => /\ Before(n.wait, n.clear)
                   /\ Before(n.clear, n.done)
                   /\ RightBefore(n.done, n.resolve)

\* C15 as stated: within every collapse and every expand, the before-*
\* notification is emitted after the layout flush and before the target
\* height is written, and the completion notification is emitted after the
\* wait and the clearing of the height override, right before the promise
\* resolves.
C15_NotifyBeforeTargetWrite ==
    \A op \in Ops :
        LET n == StepNames[op]
        IN  /\ Has(n.wait) => /\ Before(n.flush, n.before)
                              /\ Before(n.before, n.target)
            /\ DoneOrder(n)

\* C15 amended: within every collapse and every expand, the before-*
\* notification is emitted after the layout flush and after the target
\* height is written, before the timer is set; the completion notification
\* is emitted after the wait and the clearing of the height override, right
\* before the promise resolves.
C15_NotifyAfterTargetWrite ==
    \A op \in Ops :
        LET n == StepNames[op]
        IN  /\ Has(n.wait) => /\ Before(n.flush, n.target)
                              /\ Before(n.target, n.before)
                              /\ Before(n.before, n.wait)
            /\ DoneOrder(n)

\* A swap whose collapse and whose expand have both resolved.
C15_Witness ==
    /\ ExclusiveSwap
    /\ Has("collapse:resolve")
    /\ Has("expand:resolve")
    /\ Emitted("collapse", request.active)
    /\ Emitted("expand", request.index)

\* C16: in every collapse and every expand the layout is flushed exactly
\* once, after the starting height is written and before the target height
\* is written.
C16_FlushBetweenWrites ==
    \A op \in Ops :
        LET n == StepNames[op]
        IN  /\ Count(n.flush) <= 1
            /\ Has(n.wait) => /\ Count(n.flush) = 1
                              /\ Count(n.start) = 1
                              /\ Count(n.target) = 1
                              /\ Before(n.start, n.flush)
                              /\ Before(n.flush, n.target)

\* A swap that has started its collapse and its expand: both timers are set
\* and neither has run.
C16_Witness ==
    /\ ExclusiveSwap
    /\ pc = "awaitAll"
    /\ Has("collapse:setTimeout")
    /\ Has("expand:setTimeout")
    /\ Cardinality(timers) = 2

(***************************************************************************)
(* C17: every accepted toggle completes.                                   *)
(***************************************************************************)

\* Every timer that is set runs, and the suspended call continues once the
\* promise it awaits is fulfilled.
FairSpec ==
    /\ Spec
    /\ WF_vars(\E i \in Indices : collapseTimeout(i))
    /\ WF_vars(\E i \in Indices : expandTimeout(i))
    /\ WF_vars(resume)

\* Every operation the last accepted call started has notified its completion.
AllStartedDone ==
    \A op \in Ops : Has(StepNames[op].wait) => Has(StepNames[op].done)

\* C17: whenever the lock is held it is released later, with a completion
\* notification for every collapse and expand that was started.
C17_LockReleased ==
    (isTransitioning = "true") ~> (isTransitioning = "false" /\ AllStartedDone)

(***************************************************************************)
(* C18: a wait of zero is still a wait.                                    *)
(***************************************************************************)

\* A completion notification of the last accepted call has been emitted.
SomeDone == \E n \in DOMAIN events : events[n].type \in {"collapse", "expand"}

\* Every timer in the set ts was set with a wait of 0.
ZeroWaits(ts) == \A t \in ts : t.ms = 0

\* C18: when an accepted togglePanel call whose waits are all 0 returns to
\* its caller, the lock is held, its timers are pending and no completion
\* notification has been emitted; and a togglePanel call made while those
\* timers are pending changes nothing.
C18_ZeroWaitStillAsync ==
    [][/\ (CallStep /\ lastCall'.outcome = "accepted" /\ ZeroWaits(timers'))
            => /\ isTransitioning' = "true"
               /\ pc' # "idle"
               /\ timers' # {}
               /\ ~SomeDone'
       /\ (CallStep /\ timers # {} /\ ZeroWaits(timers) /\ ~SomeDone)
            => SilentNoOp]_vars

\* A swap with both waits 0 was accepted and a second call was dropped
\* before either timer ran.
C18_Witness ==
    /\ pc = "awaitAll"
    /\ Cardinality(timers) = 2
    /\ ZeroWaits(timers)
    /\ isTransitioning = "true"
    /\ ~SomeDone
    /\ lastCall.outcome = "ignored"
    /\ lastCall.index \in Indices

(***************************************************************************)
(* C19: togglePanel called from inside a listener.                         *)
(***************************************************************************)

\* The four notifications.
Notifications == {"before-collapse", "collapse", "before-expand", "expand"}

\* C19: a togglePanel call made by a listener of any notification returns
\* at an early return, whatever index it passes: every notification is
\* dispatched while the lock is held, that is after "toggle:lock" and, once
\* the lock is released, before "toggle:unlock".
C19_ListenerToggleRejected ==
    /\ Len(reentry) = Len(events)
    /\ \A n \in DOMAIN reentry :
          /\ reentry[n].event = events[n].type
          /\ reentry[n].event \in Notifications
          /\ reentry[n].outcomes = {"ignored"}
    /\ \A p \in DOMAIN steps :
          steps[p] \in {StepNames[op].before : op \in Ops}
                         \cup {StepNames[op].done : op \in Ops}
              => /\ Before("toggle:lock", steps[p])
                 /\ Has("toggle:unlock") => Before(steps[p], "toggle:unlock")

\* A completed swap: listeners of all four notifications have run, and the
\* lock has been released since.
C19_Witness ==
    /\ Completed
    /\ isTransitioning = "false"
    /\ {reentry[n].event : n \in DOMAIN reentry} = Notifications
    /\ Has("toggle:unlock")

(***************************************************************************)
(* C20: Enter and Space on a trigger.                                      *)
(***************************************************************************)

\* C20: a keydown of Enter or Space on the trigger of group k calls
\* togglePanel(k), as a click on that trigger does.
C20_KeyTogglesOwnPanel ==
    /\ (lastInput.event = "keydown"
          /\ lastInput.keyCode \in {Keys.ENTER, Keys.SPACE})
         => /\ lastInput.effect = "toggle"
            /\ lastInput.index = lastInput.target
            /\ lastCall.index = lastInput.target
    /\ lastInput.event = "click"
         => /\ lastInput.effect = "toggle"
            /\ lastInput.index = lastInput.target

====
